---- MODULE Spec2Model ----
(***************************************************************************)
(* Model of the chat session controller (src/components/ChatInterface.js)  *)
(* and of the /api/chat handler it talks to.                               *)
(*                                                                         *)
(* React state is modelled by two layers.  The variables messages, input,  *)
(* isLoading, autoScroll, darkMode and showSettings hold the component's   *)
(* state with every queued setState update applied, in order.  The         *)
(* variable rendered holds the values of the last committed render: these  *)
(* are the values the event handlers' closures and the DOM attributes      *)
(* (disabled, checked) see.  A handler runs against rendered; Render       *)
(* commits the state.  React 19 flushes the updates of an event in a       *)
(* microtask and the updates made after an await in a later task, so an    *)
(* event can be handled between a setState and the render that shows it.   *)
(* The change event of a controlled input is the exception: React renders  *)
(* synchronously at the end of such an event to restore the controlled     *)
(* value, so the changed value is committed within the event.              *)
(* The render scheduled by a submit event commits before any network task, *)
(* so a fetch settles only after the render that shows its user turn.      *)
(*                                                                         *)
(* The /api/chat handler is modelled twice: as the operator handler, which *)
(* the session uses for the answers it receives, and step by step in the   *)
(* variable server.  The database module (src/lib/database.js) is          *)
(* modelled in the variable db, and the runs of the maintenance scripts    *)
(* (scripts/generate-run-report.js, scripts/deploy-netlify.js) in script.  *)
(***************************************************************************)
EXTENDS Integers, Sequences, FiniteSets, TLC

VARIABLES
    messages,       \* useState: the conversation log, a sequence of turns
    input,          \* useState: the input buffer
    isLoading,      \* useState: the pending flag
    autoScroll,     \* useState: auto-scroll preference
    darkMode,       \* useState: theme preference
    showSettings,   \* useState: settings panel visibility
    rendered,       \* the values of the last committed render
    bodyStyle,      \* document.body.style as left by the dark-mode effect
    exchanges,      \* one record per accepted sendMessage call
    last,           \* the last sendMessage call: what it saw and did
    clicks,         \* history of the preference controls used, where recorded
    server,         \* the invocations of the /api/chat handler
    db,             \* the last call of a database function
    script          \* the run of a maintenance script

vars == <<messages, input, isLoading, autoScroll, darkMode, showSettings,
          rendered, bodyStyle, exchanges, last, clicks, server, db, script, script>>

----------------------------------------------------------------------------
(* Bounds *)

\* number of sendMessage calls that get past the guard in one session
MaxExchanges == 2

\* the same, in the specification that includes the preference controls
MaxUiExchanges == 1

\* the same, in the specification with fairness
MaxLiveExchanges == 1

----------------------------------------------------------------------------
(* Values *)

None == <<>>
Some(v) == <<v>>

Turn(role, content) == [role |-> role, content |-> content]

seed == Turn("assistant", "Hello! I'm your chatbot assistant. How can I help you today?")

\* texts the user may have in the input box
Texts == {"", " ", "Hello"}

IsSpace(c) == c \in {" ", "\t", "\n"}

RECURSIVE trimStart(_)
trimStart(s) ==
    IF Len(s) > 0 /\ IsSpace(SubSeq(s, 1, 1))
    THEN trimStart(SubSeq(s, 2, Len(s)))
    ELSE s

RECURSIVE trimEnd(_)
trimEnd(s) ==
    IF Len(s) > 0 /\ IsSpace(SubSeq(s, Len(s), Len(s)))
    THEN trimEnd(SubSeq(s, 1, Len(s) - 1))
    ELSE s

\* String.prototype.trim
trim(s) == trimEnd(trimStart(s))

----------------------------------------------------------------------------
(* The completion gateway, as the handler sees it *)

Choice(content) == [message |-> Some([content |-> content])]

\* openrouter.chat.completions.create resolves with a completion ...
Completions ==
    { [t |-> "completion", choices |-> Some(<<Choice(Some("Hi there!"))>>)],
      [t |-> "completion", choices |-> Some(<<Choice(Some("Error: none")), Choice(Some("second"))>>)],
      [t |-> "completion", choices |-> Some(<<Choice(Some(""))>>)],
      [t |-> "completion", choices |-> Some(<<Choice(None)>>)],
      [t |-> "completion", choices |-> Some(<<[message |-> None]>>)],
      [t |-> "completion", choices |-> Some(<<>>)],
      [t |-> "completion", choices |-> None] }

\* ... or rejects with an error, which may carry a transport status
GatewayErrors ==
    { [t |-> "error", status |-> Some(401), message |-> "401 No auth credentials found"],
      [t |-> "error", status |-> Some(429), message |-> "429 Rate limited"],
      [t |-> "error", status |-> Some(402), message |-> "402 Payment required"],
      [t |-> "error", status |-> Some(503), message |-> "503 Service unavailable"],
      [t |-> "error", status |-> Some(400), message |-> "400 Bad request"],
      [t |-> "error", status |-> Some(403), message |-> "403 Forbidden"],
      [t |-> "error", status |-> None, message |-> "Connection error."] }

GatewayOutcomes == Completions \cup GatewayErrors

\* variant that reads the last choice instead of the first
lastContent(completion) ==
    LET cs == completion.choices[1] IN
    IF Len(cs) = 0 THEN None
    ELSE IF cs[Len(cs)].message = None THEN None
    ELSE cs[Len(cs)].message[1].content

\* completion.choices[0]?.message?.content; None stands for undefined.
\* Called only when choices is defined.
firstContent(completion) ==
    LET cs == completion.choices[1] IN
    IF Len(cs) = 0 THEN None
    ELSE IF cs[1].message = None THEN None
    ELSE cs[1].message[1].content

\* res.status(status).json({ message, error, details })
Json(status, message, error, details) ==
    [status |-> status,
     data |-> [message |-> message, error |-> error, details |-> details]]

\* variant of the catch block with the texts of 401 and 429 exchanged
handlerCatchSwapped(errStatus, errMessage, env) ==
    IF errStatus = Some(401) THEN Json(401, None, Some("Rate limit exceeded"), None)
    ELSE IF errStatus = Some(429) THEN Json(429, None, Some("Invalid API key"), None)
    ELSE IF errStatus = Some(402) THEN Json(402, None, Some("Insufficient credits"), None)
    ELSE Json(500, None, Some("Internal server error"),
              IF env = "development" THEN Some(errMessage) ELSE None)

\* variant of the catch block without the branch for 402
handlerCatchNo402(errStatus, errMessage, env) ==
    IF errStatus = Some(401) THEN Json(401, None, Some("Invalid API key"), None)
    ELSE IF errStatus = Some(429) THEN Json(429, None, Some("Rate limit exceeded"), None)
    ELSE Json(500, None, Some("Internal server error"),
              IF env = "development" THEN Some(errMessage) ELSE None)

\* the catch block of the handler
handlerCatch(errStatus, errMessage, env) ==
    IF errStatus = Some(401) THEN Json(401, None, Some("Invalid API key"), None)
    ELSE IF errStatus = Some(429) THEN Json(429, None, Some("Rate limit exceeded"), None)
    ELSE IF errStatus = Some(402) THEN Json(402, None, Some("Insufficient credits"), None)
    ELSE Json(500, None, Some("Internal server error"),
              IF env = "development" THEN Some(errMessage) ELSE None)

choicesError == "Cannot read properties of undefined (reading '0')"

\* variant that tests the reply against undefined only
noReplyUndefined(reply) == reply = None

\* if (!reply)
noReply(reply) == reply = None \/ reply = Some("")

\* the part of the handler that follows the gateway call
handlerAfterCall(gw, env) ==
    IF gw.t = "error" THEN handlerCatch(gw.status, gw.message, env)
    ELSE IF gw.choices = None
    THEN \* completion.choices[0] throws a TypeError, which has no status
         handlerCatch(None, choicesError, env)
    ELSE LET reply == firstContent(gw) IN
         IF noReply(reply)
         THEN Json(500, None, Some("No response from API"), None)
         ELSE Json(200, reply, None, None)

\* JavaScript values as the handler tests them, tagged with their type
Undefined == [t |-> "undefined"]
Null == [t |-> "null"]
JsString(v) == [t |-> "string", str |-> v]
JsNumber(v) == [t |-> "number", num |-> v]
JsArray(v) == [t |-> "array", items |-> v]
\* an object, of which only the messages property matters
JsObject(m) == [t |-> "object", messages |-> m]

\* a request as the handler sees it: req.method and req.body
Request(method, body) == [method |-> method, body |-> body]

Falsy(x) ==
    \/ x.t \in {"undefined", "null"}
    \/ (x.t = "string" /\ x.str = "")
    \/ (x.t = "number" /\ x.num = 0)

\* variant that lets GET through as well
methodAllowedGet(method) == method \in {"POST", "GET"}

\* if (req.method !== 'POST')
methodAllowed(method) == method = "POST"

\* const { messages } = req.body throws when req.body is undefined or null
destructureThrows(body) == body.t \in {"undefined", "null"}

destructureError ==
    "Cannot destructure property 'messages' of 'req.body' as it is undefined."

\* const { messages } = req.body, for a body that can be destructured
messagesOf(body) == IF body.t = "object" THEN body.messages ELSE Undefined

\* variant of the validation that also rejects the empty array
invalidMessagesEmpty(m) == Falsy(m) \/ m.t # "array" \/ m.items = <<>>

\* if (!messages || !Array.isArray(messages))
invalidMessages(m) == Falsy(m) \/ m.t # "array"

Respond(r, calls) == [status |-> r.status, data |-> r.data, calls |-> calls]

\* export default async function handler(req, res); gw is the outcome the
\* gateway call would have, calls counts the gateway calls made
handler(req, gw, env) ==
    IF ~methodAllowed(req.method)
    THEN Respond(Json(405, None, Some("Method not allowed"), None), 0)
    ELSE IF destructureThrows(req.body)
    THEN \* the TypeError is thrown inside the try block and has no status
         Respond(handlerCatch(None, destructureError, env), 0)
    ELSE IF invalidMessages(messagesOf(req.body))
    THEN Respond(Json(400, None, Some("Messages array is required"), None), 0)
    ELSE Respond(handlerAfterCall(gw, env), 1)

----------------------------------------------------------------------------
(* The transport between the page and /api/chat *)

\* what fetch resolves with: the status, and the body as response.json()
\* will parse it (None when the body is not JSON)
Response(status, parse) ==
    [status |-> status, ok |-> (status >= 200 /\ status <= 299), parse |-> parse]

\* the fields of a parsed body that sendMessage reads
ClientData(data) == [message |-> data.message, error |-> data.error]

NodeEnvs == {"development", "production"}

\* the handler's answer to the request body sent by sendMessage, when the
\* gateway call ends as gw
responseTo(body, gw, env) ==
    LET r == handler(Request("POST", JsObject(JsArray(body))), gw, env)
    IN Response(r.status, Some(ClientData(r.data)))

\* the handler's answer to the request body sent by sendMessage
HandlerResponses(body) ==
    { responseTo(body, gw, env) : gw \in GatewayOutcomes, env \in NodeEnvs }

\* answers that do not come from the handler: an HTML page of the hosting
\* platform (with an error status or with status 200), and a JSON error body
\* without an error field
ForeignResponses ==
    { Response(502, None),
      Response(200, None),
      Response(504, Some([message |-> None, error |-> None])) }

FetchErrors == {"Failed to fetch"}
JsonErrors == {"Unexpected token '<', \"<html>\" is not valid JSON"}

----------------------------------------------------------------------------
(* The session *)

Snapshot == [messages |-> messages, input |-> input, isLoading |-> isLoading,
             autoScroll |-> autoScroll, darkMode |-> darkMode,
             showSettings |-> showSettings]

\* the dark-mode effect
bodyStyleFor(dark) ==
    IF dark THEN [backgroundColor |-> "#1a1a1a", color |-> "#ffffff"]
    ELSE [backgroundColor |-> "#f5f5f5", color |-> "#000000"]

NoCall == [op |-> "none"]
NoDbCall == [fn |-> "none"]
NoScript == [prog |-> "none"]

Init ==
    /\ messages = <<seed>>
    /\ input = ""
    /\ isLoading = FALSE
    /\ autoScroll = TRUE
    /\ darkMode = FALSE
    /\ showSettings = FALSE
    /\ rendered = Snapshot
    /\ bodyStyle = bodyStyleFor(FALSE)
    /\ exchanges = <<>>
    /\ last = NoCall
    /\ clicks = <<>>
    /\ server = <<>>
    /\ db = NoDbCall
    /\ script = NoScript

\* a render commits the state and runs the effects
Render ==
    /\ rendered # Snapshot
    /\ rendered' = Snapshot
    /\ bodyStyle' = bodyStyleFor(darkMode)
    /\ last' = NoCall
    /\ UNCHANGED <<clicks, server, db, script, messages, input, isLoading, autoScroll, darkMode,
                   showSettings, exchanges>>

\* <input onChange={(e) => setInput(e.target.value)} disabled={isLoading}>
\* a change event of a controlled input: the new value is rendered within it
onChangeInput(v) ==
    /\ ~rendered.isLoading
    /\ input' = v
    /\ rendered' = [rendered EXCEPT !.input = v]
    /\ last' = NoCall
    /\ UNCHANGED <<clicks, server, db, script, messages, isLoading, autoScroll,
                   darkMode, showSettings, bodyStyle, exchanges>>

\* <input ... disabled={isLoading}>, as rendered
inputDisabled == rendered.isLoading

\* variant of the button that is disabled only while pending
buttonDisabledPending == rendered.isLoading

\* <button type="submit" disabled={isLoading || !input.trim()}>, as rendered
buttonDisabled == rendered.isLoading \/ trim(rendered.input) = ""

InFlight == {i \in 1..Len(exchanges) : exchanges[i].pc # "done"}

\* variant of the append that starts from the log of the handler's render:
\* setMessages([...messages, turn])
appendTurnStale(prev, turn) == Append(rendered.messages, turn)

\* variant of the append that adds the turn twice
appendTurnTwice(prev, turn) == Append(Append(prev, turn), turn)

\* variant of the append that overwrites the last turn
appendTurnOverLast(prev, turn) == Append(SubSeq(prev, 1, Len(prev) - 1), turn)

\* setMessages(prev => [...prev, turn])
appendTurn(prev, turn) == Append(prev, turn)

\* variant of the guard that tests the raw input: if (!input || isLoading)
rejectsUntrimmed(text, loading) == text = "" \/ loading

\* if (!input.trim() || isLoading) return;
rejects(text, loading) == trim(text) = "" \/ loading

\* variant that stores the trimmed text
userTurnTrimmed(text) == Turn("user", trim(text))

\* const userMessage = { role: 'user', content: input }
userTurn(text) == Turn("user", text)

\* body: JSON.stringify({ messages: [...messages, userMessage] })
requestBody(log, userMessage) == Append(log, userMessage)

\* sendMessage up to its first await; max bounds the calls that pass the
\* guard.  input, isLoading and messages are read from the closure of the
\* render the handler belongs to.  An exchange records the user turn, the
\* request body, the position of its user turn (sentAt) and of its terminal
\* turn (endAt), whether another exchange was in flight when it was accepted
\* (overlap), the number of fetch calls made for it and the response.
submit(max) ==
    LET userMessage == userTurn(rendered.input)
        call == [op |-> "sendMessage", input |-> rendered.input,
                 pending |-> isLoading]
    IN
    IF rejects(rendered.input, rendered.isLoading)
    THEN /\ last' = call @@ [accepted |-> FALSE]
         /\ UNCHANGED <<clicks, server, db, script, messages, input, isLoading, autoScroll, darkMode,
                        showSettings, rendered, bodyStyle, exchanges>>
    ELSE /\ Len(exchanges) < max
         /\ messages' = appendTurn(messages, userMessage)
         /\ input' = ""
         /\ isLoading' = TRUE
         /\ exchanges' = Append(exchanges,
                [pc |-> "fetch",
                 user |-> userMessage,
                 body |-> requestBody(rendered.messages, userMessage),
                 sentAt |-> Len(messages) + 1,
                 overlap |-> InFlight # {},
                 fetches |-> 1,
                 endAt |-> 0,
                 resp |-> None])
         /\ last' = call @@ [accepted |-> TRUE]
         /\ UNCHANGED <<clicks, server, db, script, autoScroll, darkMode, showSettings, rendered,
                        bodyStyle>>

\* { role: 'assistant', content: data.message }
replyTurn(data) == Turn("assistant", data.message[1])

\* variant of the error turn that shows the diagnostic without the prefix
errorTurnBare(data) ==
    Turn("assistant",
         IF data.error = None \/ data.error = Some("")
         THEN "Something went wrong" ELSE data.error[1])

\* { role: 'assistant', content: `Error: ${data.error || 'Something went wrong'}` }
errorTurn(data) ==
    Turn("assistant",
         "Error: " \o (IF data.error = None \/ data.error = Some("")
                        THEN "Something went wrong" ELSE data.error[1]))

\* { role: 'assistant', content: `Error: ${error.message}` }
caughtTurn(message) == Turn("assistant", "Error: " \o message)

\* variant without the finally block: the flag is left as it is
finallyLoadingKept(i) == isLoading

\* finally { setIsLoading(false) }
finallyLoading(i) == FALSE

\* variant of the end of a sendMessage call that sends the request once more
\* when the turn to append is an error turn
settleRetry(i, turn) ==
    IF /\ Len(turn.content) >= 7
       /\ SubSeq(turn.content, 1, 7) = "Error: "
       /\ exchanges[i].fetches < 2
    THEN /\ exchanges' = [exchanges EXCEPT ![i].pc = "fetch", ![i].resp = None,
                                           ![i].fetches = @ + 1]
         /\ last' = NoCall
         /\ UNCHANGED <<clicks, server, db, script, messages, input, isLoading, autoScroll,
                        darkMode, showSettings, rendered, bodyStyle>>
    ELSE /\ messages' = appendTurn(messages, turn)
         /\ isLoading' = finallyLoading(i)
         /\ exchanges' = [exchanges EXCEPT ![i].pc = "done",
                                           ![i].endAt = Len(messages) + 1]
         /\ last' = NoCall
         /\ UNCHANGED <<clicks, server, db, script, input, autoScroll, darkMode, showSettings,
                        rendered, bodyStyle>>

\* the end of a sendMessage call: one turn appended, then the finally block
settle(i, turn) ==
    /\ messages' = appendTurn(messages, turn)
    /\ isLoading' = finallyLoading(i)
    /\ exchanges' = [exchanges EXCEPT ![i].pc = "done",
                                      ![i].endAt = Len(messages) + 1]
    /\ last' = NoCall
    /\ UNCHANGED <<clicks, server, db, script, input, autoScroll, darkMode, showSettings, rendered,
                   bodyStyle>>

\* the render scheduled by the submit event of exchange i has committed: it
\* is flushed in a microtask of that event, before any task of the network
Committed(i) == Len(rendered.messages) >= exchanges[i].sentAt

\* await fetch(...) resolves with a response
FetchResolves(i) ==
    /\ exchanges[i].pc = "fetch"
    /\ Committed(i)
    /\ \E r \in HandlerResponses(exchanges[i].body) \cup ForeignResponses :
          exchanges' = [exchanges EXCEPT ![i].pc = "json", ![i].resp = Some(r)]
    /\ last' = NoCall
    /\ UNCHANGED <<clicks, server, db, script, messages, input, isLoading, autoScroll, darkMode,
                   showSettings, rendered, bodyStyle>>

\* await fetch(...) rejects: the catch block, then finally
FetchRejects(i) ==
    /\ exchanges[i].pc = "fetch"
    /\ Committed(i)
    /\ \E m \in FetchErrors : settle(i, caughtTurn(m))

\* await response.json() resolves: the if/else on response.ok, then finally
JsonResolves(i) ==
    /\ exchanges[i].pc = "json"
    /\ exchanges[i].resp[1].parse # None
    /\ LET r == exchanges[i].resp[1]
           data == r.parse[1]
       IN IF r.ok
          THEN settle(i, replyTurn(data))
          ELSE settle(i, errorTurn(data))

\* await response.json() rejects: the catch block, then finally
JsonRejects(i) ==
    /\ exchanges[i].pc = "json"
    /\ exchanges[i].resp[1].parse = None
    /\ \E m \in JsonErrors : settle(i, caughtTurn(m))

\* an entry of the history of preference controls; max = 0 records nothing,
\* otherwise at most max uses are recorded and allowed
click(op, max) ==
    IF max = 0 THEN clicks' = clicks
    ELSE /\ Len(clicks) < max
         /\ clicks' = Append(clicks,
                [op |-> op, before |-> bodyStyle, after |-> bodyStyle',
                 shown |-> showSettings'])

\* <input type="checkbox" checked={autoScroll}
\*        onChange={(e) => setAutoScroll(e.target.checked)}>
autoScrollCheckbox(max) ==
    /\ autoScroll' = ~rendered.autoScroll
    /\ rendered' = [rendered EXCEPT !.autoScroll = ~rendered.autoScroll]
    /\ last' = NoCall
    /\ UNCHANGED <<messages, input, isLoading, darkMode, showSettings,
                   bodyStyle, exchanges, server, db, script>>
    /\ click("auto", max)

\* <button onClick={() => setShowSettings(!showSettings)}>
settingsButton(max) ==
    /\ showSettings' = ~rendered.showSettings
    /\ last' = NoCall
    /\ UNCHANGED <<messages, input, isLoading, autoScroll, darkMode,
                   rendered, bodyStyle, exchanges, server, db, script>>
    /\ click("settings", max)

\* variant of the dark-mode checkbox that also closes the settings panel
darkModeCheckboxCloses(max) ==
    /\ rendered.showSettings
    /\ darkMode' = ~rendered.darkMode
    /\ showSettings' = FALSE
    /\ rendered' = [rendered EXCEPT !.darkMode = ~rendered.darkMode]
    /\ bodyStyle' = bodyStyleFor(~rendered.darkMode)
    /\ last' = NoCall
    /\ UNCHANGED <<messages, input, isLoading, autoScroll, exchanges, server, db, script>>
    /\ click("dark", max)

\* variant of the dark-mode checkbox that always switches dark mode on
darkModeCheckboxOn(max) ==
    /\ rendered.showSettings
    /\ darkMode' = TRUE
    /\ rendered' = [rendered EXCEPT !.darkMode = TRUE]
    /\ bodyStyle' = bodyStyleFor(TRUE)
    /\ last' = NoCall
    /\ UNCHANGED <<messages, input, isLoading, autoScroll, showSettings,
                   exchanges, server, db, script>>
    /\ click("dark", max)

\* the dark-mode checkbox, rendered inside the settings panel:
\* <input type="checkbox" checked={darkMode}
\*        onChange={(e) => setDarkMode(e.target.checked)}>
\* followed by the dark-mode effect of the render the change event commits
darkModeCheckbox(max) ==
    /\ rendered.showSettings
    /\ darkMode' = ~rendered.darkMode
    /\ rendered' = [rendered EXCEPT !.darkMode = ~rendered.darkMode]
    /\ bodyStyle' = bodyStyleFor(~rendered.darkMode)
    /\ last' = NoCall
    /\ UNCHANGED <<messages, input, isLoading, autoScroll, showSettings,
                   exchanges, server, db, script>>
    /\ click("dark", max)

\* variant of the Close button that sets the visibility to its current value
closeButtonKept(max) ==
    /\ rendered.showSettings
    /\ showSettings' = rendered.showSettings
    /\ last' = NoCall
    /\ UNCHANGED <<messages, input, isLoading, autoScroll, darkMode,
                   rendered, bodyStyle, exchanges, server, db, script>>
    /\ click("close", max)

\* the Close button, rendered inside the settings panel:
\* <button onClick={() => setShowSettings(false)}>
closeButton(max) ==
    /\ rendered.showSettings
    /\ showSettings' = FALSE
    /\ last' = NoCall
    /\ UNCHANGED <<messages, input, isLoading, autoScroll, darkMode,
                   rendered, bodyStyle, exchanges, server, db, script>>
    /\ click("close", max)

toggleAutoScroll == autoScrollCheckbox(0)
toggleSettings == settingsButton(0)
toggleDarkMode == darkModeCheckbox(0)
closeSettings == closeButton(0)

sendMessage == submit(MaxExchanges)

Next ==
    \/ Render
    \/ \E v \in Texts : onChangeInput(v)
    \/ sendMessage
    \/ \E i \in 1..Len(exchanges) : FetchResolves(i)
    \/ \E i \in 1..Len(exchanges) : FetchRejects(i)
    \/ \E i \in 1..Len(exchanges) : JsonResolves(i)
    \/ \E i \in 1..Len(exchanges) : JsonRejects(i)

Spec == Init /\ [][Next]_vars

\* the session with the preference controls, for a shorter conversation
UiNext ==
    \/ Render
    \/ \E v \in Texts : onChangeInput(v)
    \/ submit(MaxUiExchanges)
    \/ \E i \in 1..Len(exchanges) : FetchResolves(i)
    \/ \E i \in 1..Len(exchanges) : FetchRejects(i)
    \/ \E i \in 1..Len(exchanges) : JsonResolves(i)
    \/ \E i \in 1..Len(exchanges) : JsonRejects(i)
    \/ toggleAutoScroll
    \/ toggleSettings
    \/ toggleDarkMode
    \/ closeSettings

UiSpec == Init /\ [][UiNext]_vars

\* every outstanding await of every sendMessage call eventually settles
Settles(i) ==
    /\ i \in DOMAIN exchanges
    /\ (FetchResolves(i) \/ FetchRejects(i) \/ JsonResolves(i) \/ JsonRejects(i))

LiveNext ==
    \/ Render
    \/ \E v \in Texts : onChangeInput(v)
    \/ submit(MaxLiveExchanges)
    \/ \E i \in 1..Len(exchanges) : FetchResolves(i)
    \/ \E i \in 1..Len(exchanges) : FetchRejects(i)
    \/ \E i \in 1..Len(exchanges) : JsonResolves(i)
    \/ \E i \in 1..Len(exchanges) : JsonRejects(i)

FairSpec ==
    Init /\ [][LiveNext]_vars /\ WF_vars(Render)
         /\ \A i \in 1..MaxLiveExchanges : WF_vars(Settles(i))

\* the session with texts that carry surrounding white space
MaxTypedExchanges == 1

TypedTexts == Texts \cup {" Hi "}

TypedNext ==
    \/ Render
    \/ \E v \in TypedTexts : onChangeInput(v)
    \/ submit(MaxTypedExchanges)
    \/ \E i \in 1..Len(exchanges) : FetchResolves(i)
    \/ \E i \in 1..Len(exchanges) : FetchRejects(i)
    \/ \E i \in 1..Len(exchanges) : JsonResolves(i)
    \/ \E i \in 1..Len(exchanges) : JsonRejects(i)

TypedSpec == Init /\ [][TypedNext]_vars

\* the session while the network is down: every fetch rejects
MaxOfflineExchanges == 3

OfflineNext ==
    \/ Render
    \/ \E v \in Texts : onChangeInput(v)
    \/ submit(MaxOfflineExchanges)
    \/ \E i \in 1..Len(exchanges) : FetchRejects(i)

OfflineSpec == Init /\ [][OfflineNext]_vars

\* the preference controls alone, with the history of their activations
MaxClicks == 4

PrefNext ==
    \/ Render
    \/ autoScrollCheckbox(MaxClicks)
    \/ settingsButton(MaxClicks)
    \/ darkModeCheckbox(MaxClicks)
    \/ closeButton(MaxClicks)

PrefSpec == Init /\ [][PrefNext]_vars

----------------------------------------------------------------------------
(* The /api/chat handler, step by step *)

\* number of handler invocations in the specification of the handler alone
MaxInvocations == 1

session == <<messages, input, isLoading, autoScroll, darkMode, showSettings,
             rendered, bodyStyle, exchanges, last, clicks>>

Methods == {"POST", "GET", "DELETE"}

Bodies ==
    { Undefined, Null, JsString(""), JsArray(<<>>),
      JsObject(Undefined), JsObject(Null), JsObject(JsString("hi")),
      JsObject(JsNumber(0)), JsObject(JsObject(Undefined)),
      JsObject(JsArray(<<>>)),
      JsObject(JsArray(<<seed, Turn("user", "Hello")>>)) }

Requests == { Request(m, b) : m \in Methods, b \in Bodies }

\* the handler is invoked with a request; from is the exchange whose fetch
\* sent it, 0 for a request of another client
hReceive(req, env, from, max) ==
    /\ Len(server) < max
    /\ server' = Append(server,
          [from |-> from, req |-> req, env |-> env, pc |-> "method",
           gw |-> None, err |-> None, calls |-> 0, arg |-> None, sent |-> <<>>])

\* res.status(...).json(...) followed by the end of the invocation
hSend(k, r) ==
    server' = [server EXCEPT ![k].sent = Append(@, [status |-> r.status, data |-> r.data]),
                             ![k].pc = "done"]

\* control enters the catch block with the error thrown
hThrow(k, status, message) ==
    server' = [server EXCEPT ![k].err = Some([status |-> status, message |-> message]),
                             ![k].pc = "catch"]

\* if (req.method !== 'POST') return res.status(405).json(...)
hMethod(k) ==
    /\ server[k].pc = "method"
    /\ IF ~methodAllowed(server[k].req.method)
       THEN hSend(k, Json(405, None, Some("Method not allowed"), None))
       ELSE server' = [server EXCEPT ![k].pc = "validate"]
    /\ UNCHANGED <<session, db, script>>

\* const { messages } = req.body; the 400 answer
hValidate(k) ==
    /\ server[k].pc = "validate"
    /\ LET body == server[k].req.body IN
       IF destructureThrows(body)
       THEN hThrow(k, None, destructureError)
       ELSE IF invalidMessages(messagesOf(body))
       THEN hSend(k, Json(400, None, Some("Messages array is required"), None))
       ELSE server' = [server EXCEPT ![k].pc = "call"]
    /\ UNCHANGED <<session, db, script>>

\* openrouter.chat.completions.create({...}) is called
hCall(k) ==
    /\ server[k].pc = "call"
    /\ server' = [server EXCEPT ![k].calls = @ + 1, ![k].pc = "await",
                                ![k].arg = Some(messagesOf(server[k].req.body))]
    /\ UNCHANGED <<session, db, script>>

\* the awaited gateway call resolves with a completion or rejects
hGatewaySettles(k, gw) ==
    /\ server[k].pc = "await"
    /\ IF gw.t = "error"
       THEN server' = [server EXCEPT ![k].gw = Some(gw),
                         ![k].err = Some([status |-> gw.status, message |-> gw.message]),
                         ![k].pc = "catch"]
       ELSE server' = [server EXCEPT ![k].gw = Some(gw), ![k].pc = "reply"]
    /\ UNCHANGED <<session, db, script>>

\* const reply = completion.choices[0]?.message?.content; the 500 and 200 answers
hReply(k) ==
    /\ server[k].pc = "reply"
    /\ LET completion == server[k].gw[1] IN
       IF completion.choices = None
       THEN hThrow(k, None, choicesError)
       ELSE IF noReply(firstContent(completion))
       THEN hSend(k, Json(500, None, Some("No response from API"), None))
       ELSE hSend(k, Json(200, firstContent(completion), None, None))
    /\ UNCHANGED <<session, db, script>>

\* variant of the catch block whose classified answers do not return: the
\* generic answer is sent after them
hCatchFallsThrough(k) ==
    /\ server[k].pc = "catch"
    /\ LET e == server[k].err[1]
           first == handlerCatch(e.status, e.message, server[k].env)
           generic == handlerCatch(None, e.message, server[k].env)
           out == IF first.status = 500 THEN <<first>> ELSE <<first, generic>>
       IN server' = [server EXCEPT
            ![k].sent = @ \o [n \in DOMAIN out |->
                                [status |-> out[n].status, data |-> out[n].data]],
            ![k].pc = "done"]
    /\ UNCHANGED <<session, db, script>>

\* catch (error) { ... }
hCatch(k) ==
    /\ server[k].pc = "catch"
    /\ hSend(k, handlerCatch(server[k].err[1].status, server[k].err[1].message,
                              server[k].env))
    /\ UNCHANGED <<session, db, script>>

HandlerNext ==
    \/ \E req \in Requests : \E env \in NodeEnvs :
          hReceive(req, env, 0, MaxInvocations) /\ UNCHANGED <<session, db, script>>
    \/ \E k \in DOMAIN server : hMethod(k)
    \/ \E k \in DOMAIN server : hValidate(k)
    \/ \E k \in DOMAIN server : hCall(k)
    \/ \E k \in DOMAIN server : \E gw \in GatewayOutcomes : hGatewaySettles(k, gw)
    \/ \E k \in DOMAIN server : hReply(k)
    \/ \E k \in DOMAIN server : hCatch(k)

HandlerSpec == Init /\ [][HandlerNext]_vars

\* an invocation that has ended gave the answer the operator handler gives
AgreesWithHandler(inv) ==
    LET gw == IF inv.gw = None THEN CHOOSE g \in GatewayOutcomes : TRUE ELSE inv.gw[1]
        r == handler(inv.req, gw, inv.env)
    IN /\ inv.sent = <<[status |-> r.status, data |-> r.data]>>
       /\ inv.calls = r.calls

StepwiseAgrees ==
    \A k \in DOMAIN server : server[k].pc = "done" => AgreesWithHandler(server[k])

----------------------------------------------------------------------------
(* The session and the handler together *)

\* number of accepted submissions in the specification of the whole system
MaxSysExchanges == 1

\* the deployment and the gateway outcomes of the whole system: a reply, a
\* completion without reply, an error with a classified status and an error
\* without status
SysEnvs == {"production"}
SysOutcomes ==
    { gw \in GatewayOutcomes :
         \/ gw.t = "error" /\ gw.status \in {Some(401), None}
         \/ gw.t = "completion" /\ gw.choices \in {Some(<<Choice(Some("Hi there!"))>>), Some(<<>>)} }

\* the invocations that serve the requests of exchange i
ServedFor(i) == {k \in DOMAIN server : server[k].from = i}

\* a request sent by fetch('/api/chat', { method: 'POST', body }) reaches the
\* handler; each request sent is delivered at most once
RequestArrives(i) ==
    /\ Cardinality(ServedFor(i)) < exchanges[i].fetches
    /\ \E env \in SysEnvs :
          hReceive(Request("POST", JsObject(JsArray(exchanges[i].body))), env, i,
                   2 * MaxSysExchanges)
    /\ UNCHANGED <<session, db, script>>

\* the answers fetch can resolve with for exchange i: what the handler sent,
\* or an answer of the hosting platform
Answers(i) ==
    { Response(server[k].sent[1].status, Some(ClientData(server[k].sent[1].data))) :
         k \in {j \in ServedFor(i) : server[j].pc = "done"} }
    \cup ForeignResponses

\* await fetch(...) resolves with an answer to the request of exchange i
AnswerArrives(i) ==
    /\ exchanges[i].pc = "fetch"
    /\ Committed(i)
    /\ \E r \in Answers(i) :
          exchanges' = [exchanges EXCEPT ![i].pc = "json", ![i].resp = Some(r)]
    /\ last' = NoCall
    /\ UNCHANGED <<clicks, server, db, script, messages, input, isLoading, autoScroll, darkMode,
                   showSettings, rendered, bodyStyle>>

SystemNext ==
    \/ Render
    \/ \E v \in Texts : onChangeInput(v)
    \/ submit(MaxSysExchanges)
    \/ \E i \in DOMAIN exchanges : RequestArrives(i)
    \/ \E k \in DOMAIN server : hMethod(k)
    \/ \E k \in DOMAIN server : hValidate(k)
    \/ \E k \in DOMAIN server : hCall(k)
    \/ \E k \in DOMAIN server : \E gw \in SysOutcomes : hGatewaySettles(k, gw)
    \/ \E k \in DOMAIN server : hReply(k)
    \/ \E k \in DOMAIN server : hCatch(k)
    \/ \E i \in DOMAIN exchanges : AnswerArrives(i)
    \/ \E i \in DOMAIN exchanges : FetchRejects(i)
    \/ \E i \in DOMAIN exchanges : JsonResolves(i)
    \/ \E i \in DOMAIN exchanges : JsonRejects(i)

SystemSpec == Init /\ [][SystemNext]_vars

----------------------------------------------------------------------------
(* The persistence module, lib/database.js *)

\* number of database functions called in the specification of the module
MaxDbCalls == 2

\* process.env.NEXT_PUBLIC_SUPABASE_URL and ..._ANON_KEY
EnvValues == {Undefined, JsString(""), JsString("set")}

\* supabaseUrl && supabaseAnonKey ? createClient(...) : null; FALSE is null
clientFor(url, key) == ~Falsy(url) /\ ~Falsy(key)

DbFunctions ==
    {"initializeDatabase", "saveConversation", "saveMessage",
     "getConversationHistory", "getUserConversations", "createUser", "getUserById"}

ListFunctions == {"getConversationHistory", "getUserConversations"}

Row == [t |-> "object", id |-> 1]

\* what an awaited query gives: { data, error }, or a thrown error
DbOutcomes ==
    { [t |-> "resolved", data |-> Row, error |-> None],
      [t |-> "resolved", data |-> JsArray(<<Row>>), error |-> None],
      [t |-> "resolved", data |-> Null, error |-> None],
      [t |-> "resolved", data |-> Null, error |-> Some("relation already exists")],
      [t |-> "resolved", data |-> Null, error |-> Some("permission denied")],
      [t |-> "rejected"] }

\* variant in which every function returns null when there is no client
disabledReturnNull(fn) ==
    IF fn = "initializeDatabase" THEN Undefined ELSE Null

\* if (!supabase) return null / return [] / return
disabledReturn(fn) ==
    IF fn = "initializeDatabase" THEN Undefined
    ELSE IF fn \in ListFunctions THEN JsArray(<<>>)
    ELSE Null

\* the promise of the function rejects with the error
Rejected == [t |-> "rejected"]

\* variant without the catch block: the error thrown leaves the function
queryReturnUncaught(fn, o) ==
    IF o.t = "rejected" \/ o.error # None THEN Rejected
    ELSE IF fn \in ListFunctions /\ Falsy(o.data) THEN JsArray(<<>>)
    ELSE o.data

\* if (error) throw error; return data (|| []); catch: return null / []
queryReturn(fn, o) ==
    IF o.t = "rejected" \/ o.error # None
    THEN (IF fn \in ListFunctions THEN JsArray(<<>>) ELSE Null)
    ELSE IF fn \in ListFunctions /\ Falsy(o.data) THEN JsArray(<<>>)
    ELSE o.data

\* the module is loaded: the client is created, or is null
dbLoad(url, key) ==
    /\ db = NoDbCall
    /\ db' = [fn |-> "load", url |-> url, key |-> key, client |-> clientFor(url, key),
              pc |-> "idle", n |-> 0, calls |-> 0, total |-> 0, out |-> None,
              ret |-> None]
    /\ UNCHANGED <<session, server, script>>

\* a database function is called and runs up to its first await
dbInvoke(fn) ==
    /\ db # NoDbCall
    /\ db.pc \in {"idle", "done"}
    /\ db.n < MaxDbCalls
    /\ IF ~db.client
       THEN db' = [db EXCEPT !.fn = fn, !.n = @ + 1, !.pc = "done", !.calls = 0,
                             !.out = None, !.ret = Some(disabledReturn(fn))]
       ELSE db' = [db EXCEPT !.fn = fn, !.n = @ + 1, !.pc = "await", !.calls = 1,
                             !.total = @ + 1, !.out = None, !.ret = None]
    /\ UNCHANGED <<session, server, script>>

\* the awaited query settles; initializeDatabase goes on to its next rpc
\* unless the await threw
dbSettles(o) ==
    /\ db # NoDbCall
    /\ db.pc = "await"
    /\ IF db.fn = "initializeDatabase"
       THEN IF o.t = "rejected" \/ db.calls = 3
            THEN db' = [db EXCEPT !.pc = "done", !.out = Some(o), !.ret = Some(Undefined)]
            ELSE db' = [db EXCEPT !.calls = @ + 1, !.total = @ + 1, !.out = Some(o)]
       ELSE db' = [db EXCEPT !.pc = "done", !.out = Some(o),
                             !.ret = Some(queryReturn(db.fn, o))]
    /\ UNCHANGED <<session, server, script>>

DbNext ==
    \/ \E url \in EnvValues : \E key \in EnvValues : dbLoad(url, key)
    \/ \E fn \in DbFunctions : dbInvoke(fn)
    \/ \E o \in DbOutcomes : dbSettles(o)

DbSpec == Init /\ [][DbNext]_vars

----------------------------------------------------------------------------
(* The maintenance scripts *)

\* the highest major version of Node.js considered
MaxMajor == 101

Minors == {0, 9, 20}
Patches == {0, 1}

\* the versions process.version can report, as <<major, minor, patch>>
NodeVersions == (0..MaxMajor) \X Minors \X Patches

Digit == <<"0", "1", "2", "3", "4", "5", "6", "7", "8", "9">>

\* the decimal numeral of n
RECURSIVE numeral(_)
numeral(n) == IF n < 10 THEN Digit[n + 1] ELSE numeral(n \div 10) \o Digit[(n % 10) + 1]

\* process.version.slice(1): "major.minor.patch"
versionString(v) == numeral(v[1]) \o "." \o numeral(v[2]) \o "." \o numeral(v[3])

\* the UTF-16 code unit of a character of a version string
codeUnit(c) ==
    IF c = "." THEN 46
    ELSE 47 + CHOOSE d \in DOMAIN Digit : Digit[d] = c

\* a < b on JavaScript strings: the strings are compared code unit by code
\* unit, and a proper prefix is smaller
RECURSIVE stringLess(_, _)
stringLess(a, b) ==
    IF b = "" THEN FALSE
    ELSE IF a = "" THEN TRUE
    ELSE LET x == codeUnit(SubSeq(a, 1, 1))
             y == codeUnit(SubSeq(b, 1, 1))
         IN IF x # y THEN x < y
            ELSE stringLess(SubSeq(a, 2, Len(a)), SubSeq(b, 2, Len(b)))

requiredVersion == "18.0.0"

\* checkNodeVersion of scripts/generate-run-report.js, run by a process whose
\* process.version is "v" followed by the version string of v
checkNodeVersion(v) ==
    /\ script = NoScript
    /\ script' = [prog |-> "generate-run-report", fn |-> "checkNodeVersion",
                  version |-> v, current |-> versionString(v),
                  exit |-> IF stringLess(versionString(v), requiredVersion)
                           THEN Some(1) ELSE None]
    /\ UNCHANGED <<session, server, db>>

ReportNext == \E v \in NodeVersions : checkNodeVersion(v)

ReportSpec == Init /\ [][ReportNext]_vars

\* number of runs of scripts/deploy-netlify.js
MaxRuns == 4

\* process.env.OPENROUTER_API_KEY after dotenv
ApiKeys == {Undefined, JsString(""), JsString("sk-or-v1")}

\* a step of deploy() has been made: the function called, what it met and
\* what it returned
dLog(fn, met, ok) == Append(script.log, [fn |-> fn, met |-> met, ok |-> ok])

\* process.exit(1)
dExit(log) == [script EXCEPT !.pc = "exited", !.exit = Some(1), !.log = log]

\* control passes to the next step of deploy()
dGoto(pc, log) == [script EXCEPT !.pc = pc, !.log = log]

AtStep(pc) == script # NoScript /\ script.prog = "deploy-netlify" /\ script.pc = pc

\* node scripts/deploy-netlify.js: deploy() is called
deploy ==
    /\ \/ script = NoScript
       \/ (AtStep("end") \/ AtStep("exited")) /\ script.runs < MaxRuns
    /\ script' = [prog |-> "deploy-netlify", pc |-> "env", log |-> <<>>, exit |-> None,
                  runs |-> IF script = NoScript THEN 1 ELSE script.runs + 1]
    /\ UNCHANGED <<session, server, db>>

\* if (!checkEnvironment()) process.exit(1)
checkEnvironment(key) ==
    /\ AtStep("env")
    /\ LET ok == ~Falsy(key)
           log == dLog("checkEnvironment", key.t, ok)
       IN script' = IF ok THEN dGoto("cli", log) ELSE dExit(log)
    /\ UNCHANGED <<session, server, db>>

\* checkNetlifyCLI(): true whether or not `npx netlify --version` succeeds;
\* the result is not used
checkNetlifyCLI(found) ==
    /\ AtStep("cli")
    /\ script' = dGoto("config", dLog("checkNetlifyCLI", IF found THEN "found" ELSE "missing", TRUE))
    /\ UNCHANGED <<session, server, db>>

\* setupNetlifyConfig(): false when netlify.toml cannot be written; the
\* result is not used
setupNetlifyConfig(written) ==
    /\ AtStep("config")
    /\ script' = dGoto("build", dLog("setupNetlifyConfig", IF written THEN "written" ELSE "failed", written))
    /\ UNCHANGED <<session, server, db>>

\* variant of the build step whose result is not used
buildApplicationUnchecked(installed, built) ==
    /\ AtStep("build")
    /\ LET ok == installed /\ built
           met == IF ~installed THEN "install failed"
                  ELSE IF ~built THEN "build failed" ELSE "built"
       IN script' = dGoto("deploy", dLog("buildApplication", met, ok))
    /\ UNCHANGED <<session, server, db>>

\* if (!buildApplication()) process.exit(1): npm install, then npm run build
buildApplication(installed, built) ==
    /\ AtStep("build")
    /\ LET ok == installed /\ built
           met == IF ~installed THEN "install failed"
                  ELSE IF ~built THEN "build failed" ELSE "built"
       IN script' = IF ok THEN dGoto("deploy", dLog("buildApplication", met, ok))
                    ELSE dExit(dLog("buildApplication", met, ok))
    /\ UNCHANGED <<session, server, db>>

\* if (!deployToNetlify()) process.exit(1): netlify status, whose failure is
\* caught, then netlify deploy --prod
deployToNetlify(linked, deployed) ==
    /\ AtStep("deploy")
    /\ LET met == IF ~deployed THEN "deploy failed"
                  ELSE IF linked THEN "linked" ELSE "new site"
           log == dLog("deployToNetlify", met, deployed)
       IN script' = IF deployed THEN dGoto("end", log) ELSE dExit(log)
    /\ UNCHANGED <<session, server, db>>

DeployNext ==
    \/ deploy
    \/ \E key \in ApiKeys : checkEnvironment(key)
    \/ \E found \in BOOLEAN : checkNetlifyCLI(found)
    \/ \E written \in BOOLEAN : setupNetlifyConfig(written)
    \/ \E installed \in BOOLEAN : \E built \in BOOLEAN : buildApplication(installed, built)
    \/ \E linked \in BOOLEAN : \E deployed \in BOOLEAN : deployToNetlify(linked, deployed)

DeploySpec == Init /\ [][DeployNext]_vars

----------------------------------------------------------------------------
(* Properties *)

IsPrefix(s, t) == Len(s) <= Len(t) /\ SubSeq(t, 1, Len(s)) = s
StartsWith(str, p) == Len(str) >= Len(p) /\ SubSeq(str, 1, Len(p)) = p
Last(s) == s[Len(s)]

\* requests sent to /api/chat that have not been answered yet
Outstanding == {i \in DOMAIN exchanges : exchanges[i].pc = "fetch"}

\* this step ends the sendMessage call of exchange i
Settling(i) == exchanges[i].pc # "done" /\ exchanges'[i].pc = "done"

\* a settled exchange failed: fetch rejected, the body could not be parsed,
\* or the status is not a success status
Failed(e) ==
    \/ e.resp = None
    \/ e.resp[1].parse = None
    \/ e.resp[1].status < 200
    \/ e.resp[1].status > 299

\* C1: in every reachable state at most one /api/chat request issued by
\* sendMessage is in flight.
C1_OneInFlight == Cardinality(Outstanding) <= 1

\* C2: a sendMessage call made while the pending flag is true changes
\* neither the log nor the flag and issues no request.
C2_PendingNoop ==
    [][(sendMessage /\ isLoading) =>
         (messages' = messages /\ isLoading' /\ exchanges' = exchanges)]_vars

\* C3: a sendMessage call whose input is empty or whitespace-only changes
\* neither the log, the pending flag, the requests nor the input buffer.
C3_BlankNoop ==
    [][(sendMessage /\ trim(rendered.input) = "") =>
         UNCHANGED <<messages, isLoading, exchanges, input>>]_vars

\* a whitespace-only submission was made while an exchange was pending
C3_Witness ==
    /\ last.op = "sendMessage"
    /\ last.input = " "
    /\ ~last.accepted
    /\ last.pending
    /\ Len(messages) = 2

\* C4: when a failed exchange settles, the last turn of the log is an
\* assistant turn whose content begins with "Error: " and pending is false.
C4_FailureTurn ==
    [][\A i \in DOMAIN exchanges :
         (Settling(i) /\ Failed(exchanges'[i])) =>
            /\ Last(messages').role = "assistant"
            /\ StartsWith(Last(messages').content, "Error: ")
            /\ ~isLoading']_vars

\* an exchange answered with a non-success status has settled
C4_Witness ==
    /\ Len(exchanges) = 1
    /\ exchanges[1].pc = "done"
    /\ exchanges[1].resp # None
    /\ exchanges[1].resp[1].status = 429
    /\ Last(messages) = Turn("assistant", "Error: Rate limit exceeded")
    /\ ~isLoading

Roles(role) == {n \in DOMAIN messages : messages[n].role = role}
Done == {i \in DOMAIN exchanges : exchanges[i].pc = "done"}

\* C5: every user turn appended by an accepted sendMessage is eventually
\* followed by exactly one terminal assistant turn of its exchange, after
\* which pending is false, provided the awaits of the call settle.  The
\* log holds one user turn per accepted call and, besides the seed, one
\* assistant turn per settled call; a settling step appends one assistant
\* turn and clears pending; and every accepted call settles.
C5_OneTerminalTurn ==
    /\ [](/\ Cardinality(Roles("user")) = Len(exchanges)
          /\ Cardinality(Roles("assistant")) = 1 + Cardinality(Done))
    /\ [][\A i \in DOMAIN exchanges :
            Settling(i) =>
               /\ Len(messages') = Len(messages) + 1
               /\ Last(messages').role = "assistant"
               /\ messages'[exchanges[i].sentAt] = exchanges[i].user
               /\ ~isLoading']_vars
    /\ \A i \in 1..MaxLiveExchanges :
          (i \in DOMAIN exchanges) ~> (i \in DOMAIN exchanges /\ exchanges[i].pc = "done")

\* an accepted call has settled: user turn, then its terminal turn
C5_Witness ==
    /\ Len(exchanges) = 1
    /\ exchanges[1].pc = "done"
    /\ Len(messages) = 3
    /\ messages[2] = exchanges[1].user
    /\ messages[3].role = "assistant"
    /\ ~isLoading

\* C6: the log is append-only: every step leaves the log a prefix of the
\* new log, whichever operation takes the step.
C6_AppendOnly == [][IsPrefix(messages, messages')]_vars

\* the log has grown by a full exchange and preferences have been changed
C6_Witness ==
    /\ Len(messages) = 3
    /\ darkMode
    /\ ~autoScroll
    /\ showSettings

\* C7: when every call was made after the previous exchange had settled
\* and all k exchanges have settled successfully, the log has 1 + 2*k turns.
C7_LogLength ==
    (/\ \A i \in DOMAIN exchanges :
           /\ ~exchanges[i].overlap
           /\ exchanges[i].pc = "done"
           /\ ~Failed(exchanges[i]))
      => Len(messages) = 1 + 2 * Len(exchanges)

\* two successful exchanges, one after the other
C7_Witness ==
    /\ Len(exchanges) = 2
    /\ \A i \in DOMAIN exchanges :
          ~exchanges[i].overlap /\ exchanges[i].pc = "done" /\ ~Failed(exchanges[i])
    /\ Len(messages) = 5

\* C8: the request body sent by an accepted sendMessage is the log as it
\* stands right after the user turn is appended.
C8_BodyIsLog ==
    [][Len(exchanges') > Len(exchanges) =>
          Last(exchanges').body = messages']_vars

\* the answer to exchange e is the handler's 200 answer to completion gw
RelayedFrom(e, gw) ==
    /\ e.resp # None
    /\ e.resp[1].status = 200
    /\ \E env \in NodeEnvs : e.resp[1] = responseTo(e.body, gw, env)

AnswerToStatus(e, status) ==
    /\ e.resp # None
    /\ \E gw \in GatewayErrors : \E env \in NodeEnvs :
          gw.status = Some(status) /\ e.resp[1] = responseTo(e.body, gw, env)

\* C10: when the gateway call fails with status 401 the handler answers 401
\* and the exchange ends with the final turn
\* {assistant, "Error: Invalid API key"} and pending false.
C10_InvalidKey ==
    [][\A i \in DOMAIN exchanges :
         (Settling(i) /\ AnswerToStatus(exchanges'[i], 401)) =>
            /\ exchanges'[i].resp[1].status = 401
            /\ Last(messages') = Turn("assistant", "Error: Invalid API key")
            /\ ~isLoading']_vars

\* the scenario: "Hello", then the gateway answers 401
C10_Witness ==
    /\ messages = <<seed, Turn("user", "Hello"),
                    Turn("assistant", "Error: Invalid API key")>>
    /\ exchanges[1].pc = "done"
    /\ exchanges[1].resp # None
    /\ exchanges[1].resp[1].status = 401
    /\ ~isLoading

\* the invocations of the handler that have ended
Ended == {k \in DOMAIN server : server[k].pc = "done"}

\* the gateway call of the invocation was made and threw an error
GatewayThrew(inv) == inv.gw # None /\ inv.gw[1].t = "error"

\* C11: when the gateway call throws, the answer has status 401, 429 or 402
\* if that is the error's status and 500 for any other status or none, and
\* its body carries an error string.
C11_Classified ==
    \A k \in Ended :
       GatewayThrew(server[k]) =>
          LET st == server[k].gw[1].status IN
          /\ Len(server[k].sent) = 1
          /\ server[k].sent[1].status =
                IF st \in {Some(401), Some(429), Some(402)} THEN st[1] ELSE 500
          /\ server[k].sent[1].data.error # None
          /\ server[k].sent[1].data.error # Some("")

\* the gateway threw an error with status 402, answered with 402
C11_Witness ==
    \E k \in Ended :
       /\ GatewayThrew(server[k])
       /\ server[k].gw[1].status = Some(402)
       /\ server[k].sent[1].status = 402
       /\ server[k].sent[1].data.error = Some("Insufficient credits")

\* the request has no messages array: the body is absent or null, or its
\* messages property is missing or not an array
NoMessagesArray(req) ==
    ~(req.body.t = "object" /\ req.body.messages.t = "array")

\* C12: a POST request without a messages array, the absent and the null
\* body included, is answered with status 400 and without a gateway call.
C12_Invalid400 ==
    \A k \in Ended :
       (server[k].req.method = "POST" /\ NoMessagesArray(server[k].req)) =>
          /\ Len(server[k].sent) = 1
          /\ server[k].sent[1].status = 400
          /\ server[k].calls = 0

\* C13: a request whose method is not POST is answered with status 405,
\* whatever its body, and the gateway is never called for it.
C13_MethodNotAllowed ==
    \A k \in DOMAIN server :
       server[k].req.method # "POST" =>
          /\ server[k].calls = 0
          /\ server[k].pc \in {"method", "done"}
          /\ server[k].pc = "done" =>
                /\ Len(server[k].sent) = 1
                /\ server[k].sent[1].status = 405

\* a GET request with a valid messages array has been answered with 405
C13_Witness ==
    \E k \in Ended :
       /\ server[k].req = Request("GET", JsObject(JsArray(<<seed, Turn("user", "Hello")>>)))
       /\ server[k].sent[1].status = 405

\* the completion carries no usable reply: no choices list, an empty list, a
\* first choice without message, or a message whose content is empty or absent
Unusable(gw) ==
    \/ gw.choices = None
    \/ gw.choices[1] = <<>>
    \/ gw.choices[1][1].message = None
    \/ gw.choices[1][1].message[1].content \in {None, Some("")}

\* C14: when the gateway call succeeds with a completion without usable
\* reply, the handler's answer does not have status 200, and the exchange
\* that receives it appends an assistant turn that begins with "Error: ".
C14_NoUsableReply ==
    [][\A i \in DOMAIN exchanges : \A gw \in Completions : \A env \in NodeEnvs :
         (/\ Unusable(gw)
          /\ Settling(i)
          /\ exchanges'[i].resp = Some(responseTo(exchanges[i].body, gw, env))) =>
            /\ exchanges'[i].resp[1].status # 200
            /\ Len(messages') = Len(messages) + 1
            /\ Last(messages').role = "assistant"
            /\ StartsWith(Last(messages').content, "Error: ")]_vars

\* an exchange answered for a completion with an empty choices list has
\* settled
C14_Witness ==
    /\ Len(exchanges) = 1
    /\ exchanges[1].pc = "done"
    /\ exchanges[1].resp =
          Some(responseTo(exchanges[1].body,
                          [t |-> "completion", choices |-> Some(<<>>)], "production"))
    /\ Last(messages) = Turn("assistant", "Error: No response from API")

\* C15: nothing is retried: an accepted submission issues exactly one fetch,
\* no request is issued by any other step (a failure that settles included),
\* each request is served by at most one invocation of the handler, and an
\* invocation calls the gateway at most once.
C15_NoRetry ==
    [][/\ \A i \in DOMAIN exchanges :
            /\ i \in DOMAIN exchanges'
            /\ exchanges'[i].fetches = exchanges[i].fetches
            /\ exchanges[i].pc = "done" => exchanges'[i].pc = "done"
       /\ Len(exchanges') # Len(exchanges) =>
            /\ last'.op = "sendMessage" /\ last'.accepted
            /\ Len(exchanges') = Len(exchanges) + 1
            /\ Last(exchanges').fetches = 1
       /\ \A i \in DOMAIN exchanges' : Cardinality(ServedFor(i)') <= 1
       /\ \A k \in DOMAIN server' : server'[k].calls <= 1]_vars

\* an exchange has failed on a gateway error and settled, its only request
\* was served with one gateway call, and the result has been rendered
C15_Witness ==
    /\ Len(exchanges) = 1
    /\ exchanges[1].pc = "done"
    /\ Failed(exchanges[1])
    /\ Len(server) = 1
    /\ server[1].from = 1
    /\ server[1].pc = "done"
    /\ server[1].calls = 1
    /\ GatewayThrew(server[1])
    /\ exchanges[1].resp # None
    /\ exchanges[1].resp[1].status = server[1].sent[1].status
    /\ rendered = Snapshot

\* C16: the pending flag is true exactly when a fetch issued by sendMessage
\* has not settled yet (and so is false in the initial state).
C16_PendingIffOutstanding == isLoading <=> (InFlight # {})

\* this step is the render that first shows the terminal turn of the failed
\* exchange i, no submission having been accepted since it settled
ShowsFailure(i) ==
    /\ Render
    /\ exchanges[i].pc = "done"
    /\ Failed(exchanges[i])
    /\ exchanges[i].endAt > Len(rendered.messages)
    /\ ~isLoading

\* no request is issued in this step
NoFetch ==
    /\ Len(exchanges') = Len(exchanges)
    /\ \A j \in DOMAIN exchanges : exchanges'[j].fetches = exchanges[j].fetches

\* C17, as stated: the render that follows the settling of a failed exchange
\* shows the text input and the submit button enabled, and the failure
\* issues no request.
C17_Reenabled ==
    [][\A i \in DOMAIN exchanges :
         /\ (Settling(i) /\ Failed(exchanges'[i])) => (~isLoading' /\ NoFetch)
         /\ ShowsFailure(i) => (~inputDisabled' /\ ~buttonDisabled')]_vars

\* C17, amended: when a failed exchange settles, pending becomes false and no
\* request is issued; the render that follows shows the text input enabled,
\* and the submit button enabled exactly when the input holds text that is
\* not blank.
C17_ReenabledForText ==
    [][\A i \in DOMAIN exchanges :
         /\ (Settling(i) /\ Failed(exchanges'[i])) => (~isLoading' /\ NoFetch)
         /\ ShowsFailure(i) =>
               /\ ~inputDisabled'
               /\ buttonDisabled' <=> (trim(input) = "")]_vars

\* a failed exchange has settled and been rendered: the input is enabled and
\* empty, the button disabled
C17_Witness ==
    /\ Len(exchanges) = 1
    /\ exchanges[1].pc = "done"
    /\ Failed(exchanges[1])
    /\ rendered = Snapshot
    /\ Len(messages) = 3
    /\ input = ""
    /\ ~inputDisabled
    /\ buttonDisabled

\* the operations of the activations recorded so far
Ops == [n \in DOMAIN clicks |-> clicks[n].op]

\* C18: the settings panel is hidden before any activation, the first
\* activation of the Settings button makes it visible, and every activation
\* of Close leaves it hidden, whatever preceded it.
C18_SettingsPanel ==
    /\ clicks = <<>> => ~showSettings
    /\ \A n \in DOMAIN clicks :
          /\ (clicks[n].op = "settings" /\ \A m \in 1..(n - 1) : clicks[m].op # "settings")
                => clicks[n].shown
          /\ clicks[n].op = "close" => ~clicks[n].shown

\* Close after three activations of the Settings button, all rendered
C18_Witness ==
    /\ Ops = <<"settings", "settings", "settings", "close">>
    /\ clicks[1].shown /\ ~clicks[2].shown /\ clicks[3].shown
    /\ ~showSettings
    /\ rendered = Snapshot

\* C19: two successive activations of the dark-mode checkbox leave the
\* background and foreground colors of the body as they were before the
\* first of the two.
C19_DarkModeTwice ==
    \A n \in DOMAIN clicks : \A m \in DOMAIN clicks :
       (/\ n < m
        /\ clicks[n].op = "dark" /\ clicks[m].op = "dark"
        /\ \A j \in (n + 1)..(m - 1) : clicks[j].op # "dark")
       => clicks[m].after = clicks[n].before

\* dark mode switched on and off again, then on: the body is dark, and was
\* light after the second activation
C19_Witness ==
    /\ Ops = <<"settings", "dark", "dark", "dark">>
    /\ clicks[2].before = bodyStyleFor(FALSE)
    /\ clicks[2].after = bodyStyleFor(TRUE)
    /\ clicks[3].after = bodyStyleFor(FALSE)
    /\ bodyStyle = bodyStyleFor(TRUE)

\* C20: when a connection parameter is absent the client is null, and a
\* database function that has been called has ended without a call to the
\* service, returning null (saveConversation, saveMessage, createUser,
\* getUserById), the empty list (getConversationHistory,
\* getUserConversations) or nothing (initializeDatabase).
C20_DisabledNoop ==
    (db # NoDbCall /\ (Falsy(db.url) \/ Falsy(db.key))) =>
       /\ ~db.client
       /\ db.total = 0
       /\ db.fn \in DbFunctions =>
             /\ db.pc = "done"
             /\ db.calls = 0
             /\ db.fn \in {"saveConversation", "saveMessage", "createUser", "getUserById"}
                   => db.ret = Some(Null)
             /\ db.fn \in {"getConversationHistory", "getUserConversations"}
                   => db.ret = Some(JsArray(<<>>))
             /\ db.fn = "initializeDatabase" => db.ret = Some(Undefined)

\* with the key absent, a second function has been called and
\* getConversationHistory has returned the empty list
C20_Witness ==
    /\ db # NoDbCall
    /\ db.url = JsString("set")
    /\ db.key = Undefined
    /\ db.fn = "getConversationHistory"
    /\ db.n = 2
    /\ db.ret = Some(JsArray(<<>>))
    /\ db.total = 0

\* the service answered the query with an error, or the awaited query threw
ServiceFailed(o) == o.t = "rejected" \/ o.error # None

\* C21: with the client configured, a query function whose query ended in an
\* error, returned or thrown, returns null (saveConversation, saveMessage,
\* createUser, getUserById) or the empty list (getConversationHistory,
\* getUserConversations); its promise does not reject.
C21_ErrorsSwallowed ==
    (/\ db # NoDbCall
     /\ db.client
     /\ db.fn \in DbFunctions \ {"initializeDatabase"}
     /\ db.pc = "done"
     /\ ServiceFailed(db.out[1])) =>
       /\ db.ret # Some(Rejected)
       /\ db.ret = Some(IF db.fn \in ListFunctions THEN JsArray(<<>>) ELSE Null)

\* the query of getUserConversations threw, and the function returned []
C21_Witness ==
    /\ db # NoDbCall
    /\ db.client
    /\ db.fn = "getUserConversations"
    /\ db.pc = "done"
    /\ db.out = Some([t |-> "rejected"])
    /\ db.ret = Some(JsArray(<<>>))

\* C22: every user turn of the log has content that is not blank, and the
\* user turn appended by an accepted submission holds the submitted text
\* unchanged.
C22_UserTurns ==
    [][/\ \A n \in DOMAIN messages' :
            messages'[n].role = "user" => trim(messages'[n].content) # ""
       /\ (last'.op = "sendMessage" /\ last'.accepted /\ Len(exchanges') > Len(exchanges))
            => Last(messages') = Turn("user", last'.input)]_vars

\* a text with surrounding blanks was submitted and is in the log as typed
C22_Witness ==
    /\ Len(messages) >= 2
    /\ messages[2] = Turn("user", " Hi ")
    /\ trim(messages[2].content) = "Hi"

\* C23: the visibility of the settings panel changes only in a step of the
\* Settings button, which sets it to the opposite of the visibility shown,
\* or of the Close button, which sets it to hidden; a submission, the
\* settling of an exchange, the dark-mode and the auto-scroll checkbox leave
\* it as it is.
C23_SettingsFrame ==
    [][/\ showSettings' # showSettings => (toggleSettings \/ closeSettings)
       /\ toggleSettings => showSettings' = ~rendered.showSettings
       /\ closeSettings => ~showSettings'
       /\ (\/ submit(MaxUiExchanges)
           \/ \E i \in DOMAIN exchanges : Settles(i)
           \/ toggleDarkMode
           \/ toggleAutoScroll
           \/ \E v \in Texts : onChangeInput(v))
            => showSettings' = showSettings
       /\ rendered'.showSettings # rendered.showSettings => Render]_vars

\* the panel is shown while an exchange has settled and dark mode and
\* auto-scroll have been changed
C23_Witness ==
    /\ showSettings /\ rendered.showSettings
    /\ Len(exchanges) = 1
    /\ exchanges[1].pc = "done"
    /\ darkMode
    /\ ~autoScroll

\* C24: the log starts with the seeded greeting, its roles alternate from
\* there (assistant, user, assistant, ...), and its last turn is a user turn
\* exactly when the pending flag is true.
C24_Alternation ==
    /\ messages[1] = seed
    /\ \A n \in DOMAIN messages :
          messages[n].role = IF n % 2 = 1 THEN "assistant" ELSE "user"
    /\ Last(messages).role = "user" <=> isLoading

\* C25: every step that changes the log appends one turn to the log as it is
\* in that step: an accepted submission appends its user turn, a settling
\* call an assistant turn, and every user turn and terminal turn appended
\* so far is still at the position where it was appended.
C25_AppendToCurrent ==
    [][/\ messages' # messages =>
            /\ Len(messages') = Len(messages) + 1
            /\ SubSeq(messages', 1, Len(messages)) = messages
       /\ Len(exchanges') > Len(exchanges) =>
            messages' = Append(messages, Last(exchanges').user)
       /\ \A i \in DOMAIN exchanges :
            Settling(i) =>
               /\ exchanges'[i].endAt = Len(messages) + 1
               /\ Len(messages') = Len(messages) + 1
               /\ Last(messages').role = "assistant"
       /\ \A i \in DOMAIN exchanges' :
            /\ exchanges'[i].sentAt \in DOMAIN messages'
            /\ messages'[exchanges'[i].sentAt] = exchanges'[i].user
            /\ exchanges'[i].pc = "done" =>
                  /\ exchanges'[i].endAt \in DOMAIN messages'
                  /\ messages'[exchanges'[i].endAt].role = "assistant"]_vars

\* two overlapping exchanges have settled, the second before the first: the
\* log holds the greeting, both user turns and both terminal turns
C25_Witness ==
    /\ Len(exchanges) = 2
    /\ exchanges[2].overlap
    /\ exchanges[1].pc = "done" /\ exchanges[2].pc = "done"
    /\ exchanges[2].endAt < exchanges[1].endAt
    /\ Len(messages) = 5
    /\ messages[2] = exchanges[1].user /\ messages[3] = exchanges[2].user

\* C26: the request body of a submission accepted after failed exchanges
\* have settled starts with the seeded greeting and holds, at its position
\* in the log, the "Error: " turn of each of them as an assistant message.
C26_ErrorTurnsSent ==
    [][Len(exchanges') > Len(exchanges) =>
         LET body == Last(exchanges').body IN
         /\ body[1] = seed
         /\ \A i \in DOMAIN exchanges :
               (exchanges[i].pc = "done" /\ Failed(exchanges[i])) =>
                  /\ exchanges[i].endAt \in DOMAIN body
                  /\ body[exchanges[i].endAt] = messages[exchanges[i].endAt]
                  /\ body[exchanges[i].endAt].role = "assistant"
                  /\ StartsWith(body[exchanges[i].endAt].content, "Error: ")]_vars

\* the statuses the handler answers with
HandlerStatuses == {200, 400, 401, 402, 429, 405, 500}

\* C27: an invocation of the handler that has ended has sent exactly one
\* response, with a status among 200, 400, 401, 402, 429, 405 and 500; one
\* that has not ended has sent none and can take its next step.
C27_OneResponse ==
    \A k \in DOMAIN server :
       /\ server[k].pc = "done" =>
             /\ Len(server[k].sent) = 1
             /\ server[k].sent[1].status \in HandlerStatuses
       /\ server[k].pc # "done" =>
             /\ server[k].sent = <<>>
             /\ ENABLED (\/ hMethod(k) \/ hValidate(k) \/ hCall(k)
                         \/ \E gw \in GatewayOutcomes : hGatewaySettles(k, gw)
                         \/ hReply(k) \/ hCatch(k))

\* the success path has ended with its single response of status 200
C27_Witness ==
    \E k \in Ended :
       /\ server[k].calls = 1
       /\ server[k].gw # None
       /\ server[k].gw[1].t = "completion"
       /\ server[k].sent = <<[status |-> 200,
                               data |-> Json(200, Some("Hi there!"), None, None).data]>>

\* C28: a POST request whose messages is the empty array is not answered
\* with 400: the handler calls the gateway once, with the empty list.
C28_EmptyArrayForwarded ==
    \A k \in DOMAIN server :
       server[k].req = Request("POST", JsObject(JsArray(<<>>))) =>
          /\ server[k].pc \notin {"method", "validate", "call"} =>
                /\ server[k].calls = 1
                /\ server[k].arg = Some(JsArray(<<>>))
          /\ server[k].pc = "done" =>
                /\ server[k].gw # None
                /\ server[k].sent[1].status # 400

\* a POST with an empty messages array was forwarded and answered from
\* the completion
C28_Witness ==
    \E k \in Ended :
       /\ server[k].req = Request("POST", JsObject(JsArray(<<>>)))
       /\ server[k].arg = Some(JsArray(<<>>))
       /\ server[k].calls = 1
       /\ server[k].sent[1].status = 200

\* version v is below version w when major, minor and patch are compared as
\* numbers
VersionBelow(v, w) ==
    \/ v[1] < w[1]
    \/ v[1] = w[1] /\ v[2] < w[2]
    \/ v[1] = w[1] /\ v[2] = w[2] /\ v[3] < w[3]

\* C29: checkNodeVersion ends the process with status 1 exactly for the
\* versions below 18.0.0, compared as numbers, and passes for all others.
C29_VersionCheck ==
    script # NoScript =>
       (script.exit = Some(1) <=> VersionBelow(script.version, <<18, 0, 0>>))

\* the steps of deploy() in the order of the source
DeploySteps ==
    <<"checkEnvironment", "checkNetlifyCLI", "setupNetlifyConfig",
      "buildApplication", "deployToNetlify">>

\* C30: in a run of deploy() the steps are made in the order of the source;
\* deployToNetlify is called only after checkEnvironment and then
\* buildApplication have returned true; when either returns false the
\* process exits with status 1 at that step, without deploying; the run
\* goes on whatever checkNetlifyCLI and setupNetlifyConfig return.
C30_DeployOrder ==
    (script # NoScript /\ script.prog = "deploy-netlify") =>
       LET log == script.log IN
       /\ Len(log) <= 5
       /\ \A n \in DOMAIN log : log[n].fn = DeploySteps[n]
       /\ Len(log) = 5 => (log[1].ok /\ log[4].ok)
       /\ \A n \in DOMAIN log :
             (log[n].fn \in {"checkEnvironment", "buildApplication"} /\ ~log[n].ok) =>
                /\ Len(log) = n
                /\ script.pc = "exited"
                /\ script.exit = Some(1)
       /\ \A n \in DOMAIN log :
             log[n].fn \in {"checkNetlifyCLI", "setupNetlifyConfig"} =>
                (script.pc = "exited" => Len(log) > n)
       /\ (Len(log) = 3 /\ log[1].ok) => script.pc = "build"

\* netlify.toml could not be written, and the run built and deployed
C30_Witness ==
    /\ script # NoScript
    /\ script.prog = "deploy-netlify"
    /\ script.pc = "end"
    /\ Len(script.log) = 5
    /\ ~script.log[3].ok
    /\ script.log[2].met = "missing"
    /\ script.log[5].ok
    /\ script.exit = None

====
